---- MODULE Spec2Model ----
\* Model of the sentinel dual-LLM pipeline:
\*   src/sentinel/evaluator.py     SentinelEvaluator (deepeval metrics, scoring, batches)
\*   src/sentinel/dspy_program.py  SentinelAnalyzer, LLMComparator, analyze_with_dual_llm
\* The metric implementations (deepeval) and the language-model backends (dspy) are
\* external: they are the environment, fixed per behaviour by the variables scorer,
\* ollama_backend, cloud_backend and judge_backend.
EXTENDS Integers, Sequences, FiniteSets, TLC

VARIABLES
    scorer,         \* environment: what metric.measure(test_case) does, per metric and test case
    metrics,        \* SentinelEvaluator.metrics: the metric objects (threshold, score, reason)
    ret,            \* the last call of the evaluator and what it returned
    threads,        \* concurrent evaluate_analysis calls: position and locals of each
    ollama_backend, \* environment: what the local LM answers to the extraction
    cloud_backend,  \* environment: what the cloud LM answers to the extraction
    judge_backend,  \* environment: what the LM answers to the comparison predictor
    dual            \* the last call of the dspy program and what it returned

vars == <<scorer, metrics, ret, threads, ollama_backend, cloud_backend, judge_backend, dual>>

-----------------------------------------------------------------------------
\* Bounds

\* longest batch handed to batch_evaluate
MaxCases == 3

\* bits per digit of the naturals that carry the floats' significands
LimbBits == 14

-----------------------------------------------------------------------------
\* Python floats: IEEE-754 binary64, round to nearest, ties to even.
\* A float is [sign, sig, exp]: sig is the significand, a natural number of exactly
\* MantBits bits, and the value is (-1)^sign * sig * 2^exp. Zero has the empty
\* significand. A natural number is the sequence of its digits in base LimbBase,
\* most significant first, since 53 bits do not fit the checker's integers.
\* Scores are 0 or within a few binades of 1, so overflow, subnormals, infinities
\* and NaN do not arise.

MantBits == 53

LimbBase == 2 ^ LimbBits

None == [none |-> TRUE]

Zeros(n) == [i \in 1..n |-> 0]

\* n without its leading zero digits
Norm(n) ==
    LET nz == {i \in 1..Len(n) : n[i] # 0}
    IN  IF nz = {} THEN <<>>
        ELSE SubSeq(n, CHOOSE i \in nz : \A j \in nz : i <= j, Len(n))

PadTo(n, len) == Zeros(len - Len(n)) \o n

RECURSIVE SmallToNat(_)
SmallToNat(k) == IF k = 0 THEN <<>> ELSE Append(SmallToNat(k \div LimbBase), k % LimbBase)

\* number of bits of a digit, of a small integer, of a natural without leading zeros
DigitBits(d) == CHOOSE k \in 0..31 : d < 2 ^ k /\ (k = 0 \/ 2 ^ (k - 1) <= d)

BitLen(n) == IF n = <<>> THEN 0 ELSE (Len(n) - 1) * LimbBits + DigitBits(n[1])

IsOdd(n) == n # <<>> /\ n[Len(n)] % 2 = 1

\* n * 2^d
ShiftLeft(n, d) ==
    LET s == 2 ^ (d % LimbBits)
        m == <<0>> \o n
    IN  [i \in 1..Len(m) |->
            ((m[i] * s) % LimbBase) + (IF i < Len(m) THEN (m[i + 1] * s) \div LimbBase ELSE 0)]
        \o Zeros(d \div LimbBits)

\* n \div 2^d, and whether a nonzero remainder was lost
ShiftRight(n, d) ==
    LET drop == d \div LimbBits
        keep == IF drop >= Len(n) THEN <<>> ELSE SubSeq(n, 1, Len(n) - drop)
        s    == 2 ^ (d % LimbBits)
        up   == LimbBase \div s
    IN  [q |-> [i \in 1..Len(keep) |->
                  (keep[i] \div s) + (IF i > 1 THEN (keep[i - 1] % s) * up ELSE 0)],
         lost |-> (\E i \in 1..Len(n) : i > Len(n) - drop /\ n[i] # 0)
                  \/ (keep # <<>> /\ keep[Len(keep)] % s # 0)]

\* a + b for naturals of equal length; the result is one digit longer
RECURSIVE AddCarry(_, _, _, _, _)
AddCarry(a, b, i, carry, acc) ==
    IF i = 0 THEN <<carry>> \o acc
    ELSE AddCarry(a, b, i - 1, (a[i] + b[i] + carry) \div LimbBase,
                  <<(a[i] + b[i] + carry) % LimbBase>> \o acc)

NatAdd(a, b) == AddCarry(a, b, Len(a), 0, <<>>)

\* a - b for naturals of equal length with a >= b
RECURSIVE SubBorrow(_, _, _, _, _)
SubBorrow(a, b, i, borrow, acc) ==
    IF i = 0 THEN acc
    ELSE SubBorrow(a, b, i - 1, IF a[i] - b[i] - borrow < 0 THEN 1 ELSE 0,
                   <<(a[i] - b[i] - borrow + LimbBase) % LimbBase>> \o acc)

NatSub(a, b) == SubBorrow(a, b, Len(a), 0, <<>>)

\* a < b for naturals of equal length
NatLess(a, b) ==
    \E i \in 1..Len(a) : a[i] < b[i] /\ \A j \in 1..(i - 1) : a[j] = b[j]

\* long division of n by the small integer d: quotient and remainder
RECURSIVE DivSmall(_, _, _, _)
DivSmall(n, d, r, q) ==
    IF n = <<>> THEN [q |-> q, r |-> r]
    ELSE DivSmall(Tail(n), d, (r * LimbBase + Head(n)) % d,
                  Append(q, (r * LimbBase + Head(n)) \div d))

Zero == [sign |-> 0, sig |-> <<>>, exp |-> 0]

\* the float nearest to n * 2^exp (plus a nonzero fraction below the last bit
\* when sticky), ties to even
RoundNat(sign, n, exp, sticky) ==
    LET s == Norm(n)
        L == BitLen(s)
    IN  IF L = 0 THEN Zero
        ELSE IF L <= MantBits
        THEN [sign |-> sign, sig |-> Norm(ShiftLeft(s, MantBits - L)),
              exp |-> exp - (MantBits - L)]
        ELSE LET q1   == ShiftRight(s, L - MantBits - 1)
                 kept == ShiftRight(q1.q, 1).q
                 up   == IsOdd(q1.q) /\ (q1.lost \/ sticky \/ IsOdd(kept))
                 r    == IF up THEN Norm(NatAdd(kept, PadTo(<<1>>, Len(kept)))) ELSE Norm(kept)
             IN  IF BitLen(r) > MantBits
                 THEN [sign |-> sign, sig |-> Norm(ShiftRight(r, 1).q),
                       exp |-> exp + (L - MantBits) + 1]
                 ELSE [sign |-> sign, sig |-> r, exp |-> exp + (L - MantBits)]

\* the float a decimal literal a/b denotes (0.7 is FromRatio(7, 10))
FromRatio(a, b) ==
    LET k == MantBits + 2 + DigitBits(b)
        d == DivSmall(ShiftLeft(SmallToNat(a), k), b, 0, <<>>)
    IN  RoundNat(0, d.q, -k, d.r # 0)

MagLess(x, y) ==
    IF y.sig = <<>> THEN FALSE
    ELSE IF x.sig = <<>> THEN TRUE
    ELSE x.exp < y.exp \/ (x.exp = y.exp /\ NatLess(x.sig, y.sig))

\* x < y
FLess(x, y) ==
    IF x.sign = 1 /\ y.sign = 0 THEN TRUE
    ELSE IF x.sign = 0 /\ y.sign = 1 THEN FALSE
    ELSE IF x.sign = 0 THEN MagLess(x, y) ELSE MagLess(y, x)

\* x >= y
FGe(x, y) == ~FLess(x, y)

\* x <= y
FLe(x, y) == ~FLess(y, x)

\* the two significands over the smaller of the two exponents, at equal length
Aligned(x, y) ==
    LET e  == IF x.exp < y.exp THEN x.exp ELSE y.exp
        xa == ShiftLeft(x.sig, x.exp - e)
        ya == ShiftLeft(y.sig, y.exp - e)
        n  == IF Len(xa) < Len(ya) THEN Len(ya) ELSE Len(xa)
    IN  [a |-> PadTo(xa, n), b |-> PadTo(ya, n), exp |-> e]

MagAdd(sign, x, y) ==
    IF x.sig = <<>> THEN [y EXCEPT !.sign = IF y.sig = <<>> THEN 0 ELSE sign]
    ELSE IF y.sig = <<>> THEN [x EXCEPT !.sign = sign]
    ELSE LET al == Aligned(x, y)
         IN  RoundNat(sign, NatAdd(al.a, al.b), al.exp, FALSE)

MagSub(sign, x, y) ==
    IF y.sig = <<>> THEN [x EXCEPT !.sign = IF x.sig = <<>> THEN 0 ELSE sign]
    ELSE IF x.sig = <<>> THEN [y EXCEPT !.sign = 1 - sign]
    ELSE LET al == Aligned(x, y)
         IN  IF MagLess(x, y) THEN RoundNat(1 - sign, NatSub(al.b, al.a), al.exp, FALSE)
             ELSE RoundNat(sign, NatSub(al.a, al.b), al.exp, FALSE)

\* x + y
FAdd(x, y) == IF x.sign = y.sign THEN MagAdd(x.sign, x, y) ELSE MagSub(x.sign, x, y)

FNeg(x) == IF x.sig = <<>> THEN x ELSE [x EXCEPT !.sign = 1 - x.sign]

\* x - y
FSub(x, y) == FAdd(x, FNeg(y))

\* x / n for a float x and a positive int n
FDivInt(x, n) ==
    IF x.sig = <<>> THEN x
    ELSE LET k == DigitBits(n) + 2
             d == DivSmall(ShiftLeft(x.sig, k), n, 0, <<>>)
         IN  RoundNat(x.sign, d.q, x.exp - k, d.r # 0)

-----------------------------------------------------------------------------
\* SentinelEvaluator (src/sentinel/evaluator.py)

\* self.metrics, in the dict's insertion order
MetricOrder == <<"relevance", "hallucination", "answer_relevancy", "faithfulness">>

MetricNames == {MetricOrder[i] : i \in 1..Len(MetricOrder)}

\* the literals 0.7 and 0.5 of lines 27-30
Float07 == FromRatio(7, 10)

Float05 == FromRatio(1, 2)

Threshold(m) == IF m = "hallucination" THEN Float05 ELSE Float07

LogSnippets == {"Error: Failed to install package"}

Analyses == {"Severity: ERROR", "Severity: INFO"}

create_test_case(input_text, actual_output, expected_output, context) ==
    [input |-> input_text, actual_output |-> actual_output,
     expected_output |-> expected_output, context |-> context]

AnalysisCase(log_snippet, analysis) ==
    create_test_case(log_snippet, analysis, "None", "Installation log analysis")

TestCases == {AnalysisCase(l, a) : l \in LogSnippets, a \in Analyses}

\* what a metric's measure() can do: raise, or set score and reason
ScoreValues == {FromRatio(1, 10), FromRatio(7, 10)}

Outcomes ==
    {[raised |-> TRUE, message |-> "metric failed"]}
        \cup {[raised |-> FALSE, score |-> s, reason |-> "reason"] : s \in ScoreValues}

UtcNowIso == "utcnow"

\* metric.measure(test_case): raises, or stores score and reason on the metric object
Measure(mets, m, tc) ==
    LET out == scorer[m, tc]
    IN  IF out.raised THEN [raised |-> TRUE, message |-> out.message, metrics |-> mets]
        ELSE [raised |-> FALSE,
              metrics |-> [mets EXCEPT ![m].score = out.score, ![m].reason = out.reason]]

\* lines 71-76: the entry of a metric that was measured
ScoredEntry(metric) ==
    [score |-> metric.score, threshold |-> metric.threshold,
     passed |-> FGe(metric.score, metric.threshold), reason |-> metric.reason]

\* mutant of HandleMeasureError: no except clause, the exception leaves the loop
AbortOnError(st, m, message) == [st EXCEPT !.raised = TRUE]

\* lines 77-81: the entry of a metric whose measure() raised; the loop goes on
HandleMeasureError(st, m, message) ==
    [st EXCEPT !.results = (m :> [error |-> message, passed |-> FALSE]) @@ st.results]

\* lines 68-81: one pass over self.metrics; st = [metrics, results, raised]
RECURSIVE MetricLoop(_, _, _)
MetricLoop(order, tc, st) ==
    IF order = <<>> \/ st.raised THEN st
    ELSE LET m   == Head(order)
             got == Measure(st.metrics, m, tc)
             nxt == IF got.raised THEN HandleMeasureError(st, m, got.message)
                    ELSE [st EXCEPT !.metrics = got.metrics,
                                    !.results = (m :> ScoredEntry(got.metrics[m])) @@ st.results]
         IN  MetricLoop(Tail(order), tc, nxt)

EmptyDict == [k \in {} |-> None]

\* evaluate_analysis as a function of the evaluator's state and the arguments
evaluate_analysis(mets, log_snippet, analysis) ==
    LET tc == AnalysisCase(log_snippet, analysis)
        st == MetricLoop(MetricOrder, tc, [metrics |-> mets, results |-> EmptyDict, raised |-> FALSE])
    IN  IF st.raised THEN [status |-> "raised", metrics |-> st.metrics]
        ELSE [status |-> "returned", metrics |-> st.metrics,
              value |-> [test_case |-> tc, results |-> st.results, timestamp |-> UtcNowIso]]

InitialMetrics == [m \in MetricNames |-> [threshold |-> Threshold(m), score |-> None, reason |-> "None"]]

NoCall == [op |-> "none"]

\* the dspy program is not running
InitEnvDual ==
    /\ ollama_backend = None
    /\ cloud_backend = None
    /\ judge_backend = None
    /\ dual = NoCall

Threads == {"t1", "t2"}

IdleThread == [pc |-> "idle"]

Init ==
    /\ scorer \in [MetricNames \X TestCases -> Outcomes]
    /\ metrics = InitialMetrics
    /\ ret = NoCall
    /\ threads = [t \in Threads |-> IdleThread]
    /\ InitEnvDual

EvaluateAnalysis ==
    \E log \in LogSnippets, analysis \in Analyses :
        LET r == evaluate_analysis(metrics, log, analysis)
        IN  /\ metrics' = r.metrics
            /\ ret' = [op |-> "evaluate_analysis", log_snippet |-> log, analysis |-> analysis,
                       status |-> r.status,
                       value |-> IF r.status = "returned" THEN r.value ELSE None]
            /\ UNCHANGED <<scorer, threads, ollama_backend, cloud_backend, judge_backend, dual>>

\* dict.get(key, default)
DictGet(d, k, default) == IF k \in DOMAIN d THEN d[k] ELSE default

\* the values a score slot of the comparison can hold: a score, or the default 0
ComparedValues == ScoreValues \cup {Zero}

\* cloud_score - ollama_score, tabulated once over the values that occur
DifferenceTable == {<<c, o, FSub(c, o)>> : c \in ComparedValues, o \in ComparedValues}

\* line 109
Difference(cloud_score, ollama_score) ==
    LET hit == {e \in DifferenceTable : e[1] = cloud_score /\ e[2] = ollama_score}
    IN  IF hit = {} THEN FSub(cloud_score, ollama_score) ELSE (CHOOSE e \in hit : TRUE)[3]

\* mutant of ComparedMetrics: metrics without a score on both sides are skipped
ComparedMetricsScored(ollama_results, cloud_results) ==
    {m \in MetricNames : "score" \in DOMAIN ollama_results[m]
                          /\ "score" \in DOMAIN cloud_results[m]}

\* line 102: the metrics the comparison iterates over
ComparedMetrics(ollama_results, cloud_results) == MetricNames

\* mutant of Better: >= for >, a tie goes to cloud
BetterTieToCloud(ollama_score, cloud_score) ==
    IF FGe(cloud_score, ollama_score) THEN "cloud" ELSE "ollama"

\* line 110
Better(ollama_score, cloud_score) ==
    IF FLess(ollama_score, cloud_score) THEN "cloud" ELSE "ollama"

\* lines 103-111
ComparisonEntry(ollama_results, cloud_results, m) ==
    LET ollama_score == DictGet(DictGet(ollama_results, m, EmptyDict), "score", Zero)
        cloud_score  == DictGet(DictGet(cloud_results, m, EmptyDict), "score", Zero)
    IN  [ollama |-> ollama_score, cloud |-> cloud_score,
         difference |-> Difference(cloud_score, ollama_score),
         better |-> Better(ollama_score, cloud_score)]

\* evaluate_comparison as a function of the evaluator's state and the arguments
evaluate_comparison(mets, log_snippet, ollama_analysis, cloud_analysis) ==
    LET ollama_eval == evaluate_analysis(mets, log_snippet, ollama_analysis)
    IN  IF ollama_eval.status = "raised" THEN ollama_eval
        ELSE LET cloud_eval == evaluate_analysis(ollama_eval.metrics, log_snippet, cloud_analysis)
             IN  IF cloud_eval.status = "raised" THEN cloud_eval
                 ELSE [status |-> "returned", metrics |-> cloud_eval.metrics,
                       value |->
                         [ollama_evaluation |-> ollama_eval.value,
                          cloud_evaluation |-> cloud_eval.value,
                          comparison |->
                            [m \in ComparedMetrics(ollama_eval.value.results,
                                                   cloud_eval.value.results) |->
                                ComparisonEntry(ollama_eval.value.results,
                                                cloud_eval.value.results, m)],
                          timestamp |-> UtcNowIso]]

EvaluateComparison ==
    \E log \in LogSnippets, ollama_analysis \in Analyses, cloud_analysis \in Analyses :
        LET r == evaluate_comparison(metrics, log, ollama_analysis, cloud_analysis)
        IN  /\ metrics' = r.metrics
            /\ ret' = [op |-> "evaluate_comparison", log_snippet |-> log,
                       ollama_analysis |-> ollama_analysis, cloud_analysis |-> cloud_analysis,
                       status |-> r.status,
                       value |-> IF r.status = "returned" THEN r.value ELSE None]
            /\ UNCHANGED <<scorer, threads, ollama_backend, cloud_backend, judge_backend, dual>>

\* lines 126-134: the inner loop of batch_evaluate; st = [metrics, results]
RECURSIVE BatchMetricLoop(_, _, _)
BatchMetricLoop(order, tc, st) ==
    IF order = <<>> THEN st
    ELSE LET m   == Head(order)
             got == Measure(st.metrics, m, tc)
             nxt == IF got.raised
                    THEN [st EXCEPT !.results = (m :> [error |-> got.message]) @@ st.results]
                    ELSE [metrics |-> got.metrics,
                          results |-> (m :> [score |-> got.metrics[m].score,
                                             passed |-> FGe(got.metrics[m].score,
                                                            got.metrics[m].threshold)])
                                      @@ st.results]
         IN  BatchMetricLoop(Tail(order), tc, nxt)

\* lines 123-138: st = [metrics, results], results the list built so far
RECURSIVE BatchCaseLoop(_, _)
BatchCaseLoop(cases, st) ==
    IF cases = <<>> THEN st
    ELSE LET one == BatchMetricLoop(MetricOrder, Head(cases),
                                    [metrics |-> st.metrics, results |-> EmptyDict])
         IN  BatchCaseLoop(Tail(cases),
                           [metrics |-> one.metrics,
                            results |-> Append(st.results,
                                               [test_case |-> Head(cases),
                                                results |-> one.results])])

\* lines 143-147: the scores of one metric, in the order of the cases
RECURSIVE MetricScores(_, _)
MetricScores(results, m) ==
    IF results = <<>> THEN <<>>
    ELSE LET r == Head(results)
         IN  IF "score" \in DOMAIN DictGet(r.results, m, EmptyDict)
             THEN <<DictGet(DictGet(r.results, m, EmptyDict), "score", Zero)>>
                      \o MetricScores(Tail(results), m)
             ELSE MetricScores(Tail(results), m)

\* sum(scores): left to right, starting from the int 0
RECURSIVE FSumFrom(_, _)
FSumFrom(acc, scores) ==
    IF scores = <<>> THEN acc ELSE FSumFrom(FAdd(acc, Head(scores)), Tail(scores))

FSum(scores) == FSumFrom(Zero, scores)

\* min(scores), max(scores): the first least, the first greatest
RECURSIVE FMinFrom(_, _)
FMinFrom(best, scores) ==
    IF scores = <<>> THEN best
    ELSE FMinFrom(IF FLess(Head(scores), best) THEN Head(scores) ELSE best, Tail(scores))

FMin(scores) == FMinFrom(Head(scores), Tail(scores))

RECURSIVE FMaxFrom(_, _)
FMaxFrom(best, scores) ==
    IF scores = <<>> THEN best
    ELSE FMaxFrom(IF FLess(best, Head(scores)) THEN Head(scores) ELSE best, Tail(scores))

FMax(scores) == FMaxFrom(Head(scores), Tail(scores))

\* the non-empty score lists a batch can produce for one metric
ScoreLists == UNION {[1..n -> ScoreValues] : n \in 1..MaxCases}

\* sum(scores) / len(scores), tabulated once over the lists that occur
MeanTable == {<<s, FDivInt(FSum(s), Len(s))>> : s \in ScoreLists}

\* line 150
Mean(scores) ==
    LET hit == {e \in MeanTable : e[1] = scores}
    IN  IF hit = {} THEN FDivInt(FSum(scores), Len(scores)) ELSE (CHOOSE e \in hit : TRUE)[2]

\* lines 149-154
AggregateStats(scores) ==
    [mean |-> Mean(scores), min |-> FMin(scores),
     max |-> FMax(scores), count |-> Len(scores)]

\* lines 141-154
Aggregate(results) ==
    [m \in {n \in MetricNames : MetricScores(results, n) # <<>>} |->
        AggregateStats(MetricScores(results, m))]

batch_evaluate(mets, test_cases) ==
    LET st == BatchCaseLoop(test_cases, [metrics |-> mets, results |-> <<>>])
    IN  [status |-> "returned", metrics |-> st.metrics,
         value |-> [individual_results |-> st.results,
                    aggregate_scores |-> Aggregate(st.results),
                    timestamp |-> UtcNowIso]]

Batches == UNION {[1..n -> TestCases] : n \in 0..MaxCases}

BatchEvaluate ==
    /\ ret = NoCall
    /\ \E test_cases \in Batches :
        LET r == batch_evaluate(metrics, test_cases)
        IN  /\ metrics' = r.metrics
            /\ ret' = [op |-> "batch_evaluate", test_cases |-> test_cases,
                       status |-> r.status, value |-> r.value]
            /\ UNCHANGED <<scorer, threads, ollama_backend, cloud_backend, judge_backend, dual>>

Next == EvaluateAnalysis \/ EvaluateComparison

Spec == Init /\ [][Next]_vars

NextBatch == BatchEvaluate \/ EvaluateAnalysis

SpecBatch == Init /\ [][NextBatch]_vars
-----------------------------------------------------------------------------
\* Two threads calling evaluate_analysis on one SentinelEvaluator. A thread's steps
\* are the places where the interpreter can switch threads between two accesses to
\* the shared metric objects: measure() (line 70), the read of metric.score for
\* 'score' (line 72), and the reads for 'threshold', 'passed' and 'reason'
\* (lines 73-75).

\* the analysis each thread scores: two calls on two different analyses
ThreadAnalysis == [t \in Threads |-> IF t = "t1" THEN "Severity: ERROR" ELSE "Severity: INFO"]

\* lines 58-65
ThreadCall(t) ==
    /\ threads[t].pc = "idle"
    /\ \E log \in LogSnippets, analysis \in {ThreadAnalysis[t]} :
        threads' = [threads EXCEPT ![t] =
            [pc |-> "measure", test_case |-> AnalysisCase(log, analysis), idx |-> 1,
             results |-> EmptyDict]]
    /\ UNCHANGED <<scorer, metrics, ret, ollama_backend, cloud_backend, judge_backend, dual>>

\* the thread after the entry of its current metric is stored: the next metric, or
\* the return of lines 83-87
Advance(th, results) ==
    IF th.idx = Len(MetricOrder)
    THEN [pc |-> "done", test_case |-> th.test_case,
          value |-> [test_case |-> th.test_case, results |-> results,
                     timestamp |-> UtcNowIso]]
    ELSE [pc |-> "measure", test_case |-> th.test_case, idx |-> th.idx + 1,
          results |-> results]

\* line 70, and lines 77-81 when it raises
ThreadMeasure(t) ==
    LET th  == threads[t]
        m   == MetricOrder[th.idx]
        got == Measure(metrics, m, th.test_case)
    IN  /\ th.pc = "measure"
        /\ metrics' = got.metrics
        /\ threads' = [threads EXCEPT ![t] =
              IF got.raised
              THEN Advance(th, HandleMeasureError(th, m, got.message).results)
              ELSE [th EXCEPT !.pc = "read_score"]]
        /\ UNCHANGED <<scorer, ret, ollama_backend, cloud_backend, judge_backend, dual>>

\* line 72
ThreadReadScore(t) ==
    LET th == threads[t]
        m  == MetricOrder[th.idx]
    IN  /\ th.pc = "read_score"
        /\ threads' = [threads EXCEPT ![t] =
              [pc |-> "read_passed", test_case |-> th.test_case, idx |-> th.idx,
               results |-> th.results, score |-> metrics[m].score]]
        /\ UNCHANGED <<scorer, metrics, ret, ollama_backend, cloud_backend, judge_backend, dual>>

\* lines 73-76
ThreadReadPassed(t) ==
    LET th == threads[t]
        m  == MetricOrder[th.idx]
        entry == [score |-> th.score, threshold |-> metrics[m].threshold,
                  passed |-> FGe(metrics[m].score, metrics[m].threshold),
                  reason |-> metrics[m].reason]
    IN  /\ th.pc = "read_passed"
        /\ threads' = [threads EXCEPT ![t] = Advance(th, (m :> entry) @@ th.results)]
        /\ UNCHANGED <<scorer, metrics, ret, ollama_backend, cloud_backend, judge_backend, dual>>

NextConcurrent ==
    \E t \in Threads :
        ThreadCall(t) \/ ThreadMeasure(t) \/ ThreadReadScore(t) \/ ThreadReadPassed(t)

SpecConcurrent == Init /\ [][NextConcurrent]_vars
-----------------------------------------------------------------------------
\* The dspy program (src/sentinel/dspy_program.py)

\* SentinelAnalysis: the output fields, in declaration order
OutputFields == <<"severity", "category", "pattern_matched", "suggested_action",
                  "learning_candidate">>

SeverityLevels == {"INFO", "WARN", "ERROR", "CRITICAL"}

\* what a language model may put in severity: the signature types it as str, the
\* four levels are only its description
SeverityValues == SeverityLevels \cup {"HIGH"}

FieldValue(f, severity) ==
    CASE f = "severity" -> severity
      [] f = "category" -> "Network"
      [] f = "pattern_matched" -> "Connection timeout"
      [] f = "suggested_action" -> "Retry"
      [] f = "learning_candidate" -> TRUE

FieldSet == {OutputFields[i] : i \in 1..Len(OutputFields)}

\* a prediction carries any subset of the fields
Predictions ==
    {[f \in fs |-> FieldValue(f, severity)] : fs \in SUBSET FieldSet,
                                              severity \in SeverityValues}

\* what the call of a predictor can do: raise, or return a prediction
BackendAnswers ==
    {[raised |-> TRUE, error |-> "backend failed"]}
        \cup {[raised |-> FALSE, prediction |-> p] : p \in Predictions}

JudgeFields == <<"differences", "agreement_score", "recommendation">>

JudgePredictions ==
    {[differences |-> "severity differs", agreement_score |-> "0.5",
      recommendation |-> "use cloud"],
     [differences |-> "severity differs", recommendation |-> "use cloud"]}

JudgeAnswers ==
    {[raised |-> TRUE, error |-> "backend failed"]}
        \cup {[raised |-> FALSE, prediction |-> p] : p \in JudgePredictions}

InitDual ==
    /\ scorer = None
    /\ metrics = InitialMetrics
    /\ ret = NoCall
    /\ threads = [t \in Threads |-> IdleThread]
    /\ ollama_backend \in BackendAnswers
    /\ cloud_backend \in BackendAnswers
    /\ judge_backend \in JudgeAnswers
    /\ dual = NoCall

\* the language model a dspy.context(lm=...) block talks to
Invoke(lm) == IF lm = "ollama_lm" THEN ollama_backend ELSE cloud_backend

\* reading the attributes of a prediction into a dict, in order: the first one
\* that is missing raises AttributeError
RECURSIVE ReadFields(_, _, _)
ReadFields(prediction, fields, acc) ==
    IF fields = <<>> THEN [raised |-> FALSE, value |-> acc]
    ELSE IF Head(fields) \notin DOMAIN prediction
         THEN [raised |-> TRUE, error |-> "AttributeError"]
         ELSE ReadFields(prediction, Tail(fields),
                         acc @@ (Head(fields) :> prediction[Head(fields)]))

\* lines 65-73 and 77-85: one extraction under dspy.context(lm=lm)
Extraction(lm) ==
    LET answer == Invoke(lm)
    IN  IF answer.raised THEN [raised |-> TRUE, error |-> answer.error]
        ELSE ReadFields(answer.prediction, OutputFields, EmptyDict)

\* SentinelAnalyzer.forward; calls lists the language models invoked, in order
forward(use_both) ==
    LET first == Extraction("ollama_lm")
    IN  IF first.raised
        THEN [status |-> "raised", error |-> first.error, calls |-> <<"ollama_lm">>]
        ELSE IF ~use_both
        THEN [status |-> "returned", value |-> ("ollama" :> first.value),
              calls |-> <<"ollama_lm">>]
        ELSE LET second == Extraction("cloud_lm")
             IN  IF second.raised
                 THEN [status |-> "raised", error |-> second.error,
                       calls |-> <<"ollama_lm", "cloud_lm">>]
                 ELSE [status |-> "returned",
                       value |-> ("ollama" :> first.value) @@ ("cloud" :> second.value),
                       calls |-> <<"ollama_lm", "cloud_lm">>]

\* json.dumps of a value and of a dict of str and bool values: the keys in the
\* dict's order, each with its value's JSON token
JsonToken(key, v) ==
    IF key = "learning_candidate" THEN <<"literal", IF v THEN "true" ELSE "false">>
    ELSE <<"string", v>>

Dumps(d, keys) ==
    [i \in 1..Len(keys) |-> <<keys[i], JsonToken(keys[i], d[keys[i]])>>]

\* LLMComparator.compare; judge_calls lists the arguments handed to the predictor
compare(ollama_analysis, cloud_analysis) ==
    LET ollama_str == Dumps(ollama_analysis, OutputFields)
        cloud_str  == Dumps(cloud_analysis, OutputFields)
        call == [ollama_analysis |-> ollama_str, cloud_analysis |-> cloud_str]
        read == ReadFields(judge_backend.prediction, JudgeFields, EmptyDict)
    IN  IF judge_backend.raised
        THEN [raised |-> TRUE, error |-> judge_backend.error, judge_calls |-> <<call>>]
        ELSE IF read.raised
        THEN [raised |-> TRUE, error |-> read.error, judge_calls |-> <<call>>]
        ELSE [raised |-> FALSE, value |-> read.value @@ ("timestamp" :> UtcNowIso),
              judge_calls |-> <<call>>]

\* mutant of CompareResults: the two results handed over in the other order
CompareResultsSwapped(results) == compare(results["cloud"], results["ollama"])

\* lines 149-150
CompareResults(results) == compare(results["ollama"], results["cloud"])

\* line 148
ShouldCompare(do_compare, results) ==
    do_compare /\ "ollama" \in DOMAIN results /\ "cloud" \in DOMAIN results

\* analyze_with_dual_llm
analyze_with_dual_llm(do_compare) ==
    LET run == forward(TRUE)
    IN  IF run.status = "raised"
        THEN [status |-> "raised", error |-> run.error, calls |-> run.calls,
              judge_calls |-> <<>>]
        ELSE IF ~ShouldCompare(do_compare, run.value)
        THEN [status |-> "returned", value |-> run.value, calls |-> run.calls,
              judge_calls |-> <<>>]
        ELSE LET comparison == CompareResults(run.value)
             IN  IF comparison.raised
                 THEN [status |-> "raised", error |-> comparison.error, calls |-> run.calls,
                       judge_calls |-> comparison.judge_calls]
                 ELSE [status |-> "returned",
                       value |-> run.value @@ ("comparison" :> comparison.value),
                       calls |-> run.calls, judge_calls |-> comparison.judge_calls]

Forward ==
    \E use_both \in BOOLEAN :
        LET r == forward(use_both)
        IN  /\ dual' = [op |-> "forward", use_both |-> use_both, status |-> r.status,
                        value |-> IF r.status = "returned" THEN r.value ELSE None,
                        calls |-> r.calls, judge_calls |-> <<>>]
            /\ UNCHANGED <<scorer, metrics, ret, threads, ollama_backend, cloud_backend,
                           judge_backend>>

AnalyzeWithDualLLM ==
    \E do_compare \in BOOLEAN :
        LET r == analyze_with_dual_llm(do_compare)
        IN  /\ dual' = [op |-> "analyze_with_dual_llm", compare |-> do_compare,
                        status |-> r.status,
                        value |-> IF r.status = "returned" THEN r.value ELSE None,
                        calls |-> r.calls, judge_calls |-> r.judge_calls]
            /\ UNCHANGED <<scorer, metrics, ret, threads, ollama_backend, cloud_backend,
                           judge_backend>>

NextDual == Forward \/ AnalyzeWithDualLLM

SpecDual == InitDual /\ [][NextDual]_vars
-----------------------------------------------------------------------------
\* Properties of the evaluator

\* the per-metric result mappings of the last call
Evaluations ==
    IF ret.op = "evaluate_analysis" /\ ret.status = "returned" THEN {ret.value}
    ELSE IF ret.op = "evaluate_comparison" /\ ret.status = "returned"
    THEN {ret.value.ollama_evaluation, ret.value.cloud_evaluation}
    ELSE {}

\* C1: evaluate_analysis returns normally whichever metrics raise, its results
\* have one entry per registered metric, and every metric whose measure() did not
\* raise has a score-bearing entry.
C1_Isolation ==
    /\ ret.op \in {"evaluate_analysis", "evaluate_comparison"} => ret.status = "returned"
    /\ \A e \in Evaluations :
        /\ DOMAIN e.results = MetricNames
        /\ \A m \in MetricNames :
              ~scorer[m, e.test_case].raised => "score" \in DOMAIN e.results[m]

\* the first and the third metric raise, the second and the fourth are scored
C1_Witness ==
    /\ ret.op = "evaluate_analysis"
    /\ ret.status = "returned"
    /\ scorer["relevance", ret.value.test_case].raised
    /\ ~scorer["hallucination", ret.value.test_case].raised
    /\ scorer["answer_relevancy", ret.value.test_case].raised
    /\ ~scorer["faithfulness", ret.value.test_case].raised
    /\ "error" \in DOMAIN ret.value.results["relevance"]
    /\ "score" \in DOMAIN ret.value.results["hallucination"]
    /\ "error" \in DOMAIN ret.value.results["answer_relevancy"]
    /\ "score" \in DOMAIN ret.value.results["faithfulness"]

\* the per-case result mappings the scorer produced in the last call
PerCaseResults ==
    IF ret.op = "evaluate_analysis" /\ ret.status = "returned" THEN {ret.value.results}
    ELSE IF ret.op = "batch_evaluate"
    THEN {ret.value.individual_results[i].results :
              i \in 1..Len(ret.value.individual_results)}
    ELSE {}

WellFormedEntry(m, e) ==
    \/ /\ "score" \in DOMAIN e
       /\ "error" \notin DOMAIN e
       /\ "passed" \in DOMAIN e
       /\ e.passed <=> FGe(e.score, Threshold(m))
    \/ /\ "error" \in DOMAIN e
       /\ "score" \notin DOMAIN e
       /\ "passed" \in DOMAIN e
       /\ e.passed = FALSE

\* C2: every metric entry of every per-case result (evaluate_analysis and
\* batch_evaluate) is either score-bearing with passed == (score >= threshold) or
\* error-bearing with passed == false, never both and never neither.
C2_EntryShape ==
    \A r \in PerCaseResults : \A m \in DOMAIN r : WellFormedEntry(m, r[m])

\* the cases of the last batch on which metric m produced a score
ScoredCases(m) == {i \in 1..Len(ret.test_cases) : ~scorer[m, ret.test_cases[i]].raised}

\* count, min, max and absence of the aggregate of metric m, without its mean
AggregateOverScored(m) ==
    LET agg == ret.value.aggregate_scores
    IN  IF ScoredCases(m) = {} THEN m \notin DOMAIN agg
        ELSE /\ m \in DOMAIN agg
             /\ agg[m].count = Cardinality(ScoredCases(m))
             /\ \E i \in ScoredCases(m) : agg[m].min = scorer[m, ret.test_cases[i]].score
             /\ \E i \in ScoredCases(m) : agg[m].max = scorer[m, ret.test_cases[i]].score
             /\ \A i \in ScoredCases(m) :
                   /\ FLe(agg[m].min, scorer[m, ret.test_cases[i]].score)
                   /\ FLe(scorer[m, ret.test_cases[i]].score, agg[m].max)

\* C3: the aggregate of each metric is the reduction over exactly the cases where
\* the metric produced a score: count is their number, min <= mean <= max, and a
\* metric without a scored case is absent.
C3_Aggregate ==
    ret.op = "batch_evaluate" =>
        \A m \in MetricNames :
            /\ AggregateOverScored(m)
            /\ m \in DOMAIN ret.value.aggregate_scores =>
                  /\ FLe(ret.value.aggregate_scores[m].min, ret.value.aggregate_scores[m].mean)
                  /\ FLe(ret.value.aggregate_scores[m].mean, ret.value.aggregate_scores[m].max)

\* the score a side of the comparison stands for: the metric's score, 0 when it raised
SideScore(m, log_snippet, analysis) ==
    LET out == scorer[m, AnalysisCase(log_snippet, analysis)]
    IN  IF out.raised THEN Zero ELSE out.score

\* C4: every registered metric has a comparison entry with
\* difference == cloud - ollama and better == 'cloud' exactly when cloud is
\* strictly greater; identical outputs give difference 0 and better 'ollama'.
C4_Comparison ==
    ret.op = "evaluate_comparison" =>
        /\ ret.status = "returned"
        /\ \A m \in MetricNames :
            /\ m \in DOMAIN ret.value.comparison
            /\ LET e == ret.value.comparison[m]
                   o == SideScore(m, ret.log_snippet, ret.ollama_analysis)
                   c == SideScore(m, ret.log_snippet, ret.cloud_analysis)
               IN  /\ e.ollama = o
                   /\ e.cloud = c
                   /\ e.difference = FSub(c, o)
                   /\ e.better = (IF FLess(o, c) THEN "cloud" ELSE "ollama")
                   /\ ret.ollama_analysis = ret.cloud_analysis =>
                         e.difference = Zero /\ e.better = "ollama"

\* two different analyses: one metric is won by cloud, another is a tie on a
\* positive score and goes to ollama
C4_Witness ==
    /\ ret.op = "evaluate_comparison"
    /\ ret.status = "returned"
    /\ ret.ollama_analysis # ret.cloud_analysis
    /\ \E m \in MetricNames :
          /\ ret.value.comparison[m].better = "cloud"
          /\ FLess(Zero, ret.value.comparison[m].difference)
    /\ \E m \in MetricNames :
          /\ ret.value.comparison[m].better = "ollama"
          /\ ret.value.comparison[m].difference = Zero
          /\ ret.value.comparison[m].ollama # Zero

\* C10: a comparison entry exists for every registered metric also when its
\* scoring raised on a side; that side is reported as 0 and difference and better
\* follow from the 0.
C10_MissingScoreIsZero ==
    ret.op = "evaluate_comparison" /\ ret.status = "returned" =>
        /\ DOMAIN ret.value.comparison = MetricNames
        /\ \A m \in MetricNames :
            LET e == ret.value.comparison[m]
                o == scorer[m, AnalysisCase(ret.log_snippet, ret.ollama_analysis)]
                c == scorer[m, AnalysisCase(ret.log_snippet, ret.cloud_analysis)]
            IN  /\ o.raised => e.ollama = Zero
                /\ c.raised => e.cloud = Zero
                /\ o.raised /\ c.raised => e.difference = Zero /\ e.better = "ollama"
                /\ o.raised /\ ~c.raised /\ c.score # Zero =>
                      e.difference = c.score /\ e.better = "cloud"
                /\ c.raised /\ ~o.raised /\ o.score # Zero =>
                      e.difference = FNeg(o.score) /\ e.better = "ollama"

\* one metric raised on the ollama side only, one on the cloud side only, one on both
C10_Witness ==
    /\ ret.op = "evaluate_comparison"
    /\ ret.status = "returned"
    /\ \E m \in MetricNames :
          /\ "error" \in DOMAIN ret.value.ollama_evaluation.results[m]
          /\ "score" \in DOMAIN ret.value.cloud_evaluation.results[m]
          /\ ret.value.comparison[m].better = "cloud"
    /\ \E m \in MetricNames :
          /\ "score" \in DOMAIN ret.value.ollama_evaluation.results[m]
          /\ "error" \in DOMAIN ret.value.cloud_evaluation.results[m]
          /\ ret.value.comparison[m].better = "ollama"
    /\ \E m \in MetricNames :
          /\ "error" \in DOMAIN ret.value.ollama_evaluation.results[m]
          /\ "error" \in DOMAIN ret.value.cloud_evaluation.results[m]
          /\ ret.value.comparison[m].difference = Zero

\* what evaluate_analysis returns for a thread's test case when it runs alone
SoloResults(tc) ==
    MetricLoop(MetricOrder, tc,
               [metrics |-> InitialMetrics, results |-> EmptyDict, raised |-> FALSE]).results

\* C6: a call that ran concurrently with another returns, for every metric, the
\* score and passed values it returns when run alone.
C6_ConcurrentAsAlone ==
    \A t \in Threads :
        threads[t].pc = "done" =>
            \A m \in MetricNames :
                threads[t].value.results[m] = SoloResults(threads[t].test_case)[m]

-----------------------------------------------------------------------------
\* Properties of the dspy program

Invoked(lm) == \E i \in 1..Len(dual.calls) : dual.calls[i] = lm

\* the extraction against a backend fails: the call raises or a field is missing
ExtractionFails(answer) == answer.raised \/ ~(FieldSet \subseteq DOMAIN answer.prediction)

\* C5: with use_both, the two extractions are attempted independently: when the
\* local extraction fails the cloud extraction is still attempted, and the other
\* way round.
C5_IndependentAttempts ==
    dual.op = "forward" /\ dual.use_both =>
        /\ ExtractionFails(ollama_backend) => Invoked("cloud_lm")
        /\ ExtractionFails(cloud_backend) => Invoked("ollama_lm")

\* C7: every structured result forward returns has all five fields and a severity
\* among the four levels; a backend result without a field or with another
\* severity leads to a failure.
C7_StructuredResult ==
    dual.op # "none" =>
        /\ dual.status = "returned" =>
              \A src \in {"ollama", "cloud"} \cap DOMAIN dual.value :
                  /\ DOMAIN dual.value[src] = FieldSet
                  /\ dual.value[src]["severity"] \in SeverityLevels
        /\ (~ollama_backend.raised
              /\ "severity" \in DOMAIN ollama_backend.prediction
              /\ ollama_backend.prediction["severity"] \notin SeverityLevels)
             => dual.status = "raised"

JudgeFails ==
    judge_backend.raised
        \/ \E i \in 1..Len(JudgeFields) : JudgeFields[i] \notin DOMAIN judge_backend.prediction

\* C8: the result of analyze_with_dual_llm has a comparison iff compare was true
\* and both source results are present; the comparison is the comparator's answer
\* to exactly the local result (first) and the cloud result (second); a failure
\* of the comparator is raised.
C8_Comparison ==
    dual.op = "analyze_with_dual_llm" =>
        /\ dual.status = "returned" =>
              /\ "comparison" \in DOMAIN dual.value
                    <=> (dual.compare /\ "ollama" \in DOMAIN dual.value
                                      /\ "cloud" \in DOMAIN dual.value)
              /\ "comparison" \in DOMAIN dual.value =>
                    /\ dual.judge_calls =
                          <<[ollama_analysis |-> Dumps(dual.value["ollama"], OutputFields),
                             cloud_analysis |-> Dumps(dual.value["cloud"], OutputFields)]>>
                    /\ ~JudgeFails
                    /\ \A i \in 1..Len(JudgeFields) :
                          dual.value["comparison"][JudgeFields[i]]
                              = judge_backend.prediction[JudgeFields[i]]
        /\ (dual.compare /\ ~ExtractionFails(ollama_backend)
               /\ ~ExtractionFails(cloud_backend) /\ JudgeFails)
             => dual.status = "raised"

\* a comparison is attached, of two results that differ
C8_Witness ==
    /\ dual.op = "analyze_with_dual_llm"
    /\ dual.status = "returned"
    /\ "comparison" \in DOMAIN dual.value
    /\ dual.value["ollama"]["severity"] # dual.value["cloud"]["severity"]

\* C9: forward always invokes the local backend, invokes the cloud backend iff
\* use_both, and on return maps 'ollama' to the local backend's output and
\* 'cloud', present iff use_both, to the cloud backend's output.
C9_Backends ==
    dual.op = "forward" =>
        /\ Invoked("ollama_lm")
        /\ Invoked("cloud_lm") <=> dual.use_both
        /\ dual.status = "returned" =>
              /\ dual.value["ollama"] = ollama_backend.prediction
              /\ "cloud" \in DOMAIN dual.value <=> dual.use_both
              /\ dual.use_both => dual.value["cloud"] = cloud_backend.prediction
====
